---- MODULE Spec2Model ----
(***************************************************************************)
(* Model of src/notify.rs: the Notification trait, the base strategies     *)
(* Notify and NotifyAdditional, the decorators Relaxed, Tag and TagWith,   *)
(* the IntoNotification builder layer and full_fence.                      *)
(*                                                                         *)
(* Values are records tagged by "kind":                                    *)
(*   [kind |-> "int", ty, v]            an integer of one of the 12 types, *)
(*                                      v its value [neg, mag]             *)
(*   [kind |-> "Notify", n]             Notify(n), n a usize               *)
(*   [kind |-> "NotifyAdditional", n]   NotifyAdditional(n)                *)
(*   [kind |-> "Relaxed", inner]        Relaxed(inner)                     *)
(*   [kind |-> "Tag", tag, inner]       Tag { tag, inner }                 *)
(*   [kind |-> "TagWith", tag, inner]   TagWith { tag, inner }, tag a      *)
(*                                      closure [f, calls]                 *)
(*   [kind |-> "panic", msg]            the unwinding of expect("overflow")*)
(***************************************************************************)
EXTENDS Integers, Sequences, FiniteSets, TLC

VARIABLES
    cas_fence,  \* the cfg!() condition of full_fence on the build's target
    input,      \* the integer the value is built from
    src,        \* the value in hand: integer, Notification or panic
    pc,         \* where the caller stands
    waiting,    \* the argument of the last count call (0 before any)
    toWake,     \* the result of the last count call (0 before any)
    emitted,    \* instructions emitted by the fence calls
    woken,      \* tags returned by the next_tag calls, in order
    calls,      \* trait-method calls made, by method
    notified,   \* listeners notified so far over a sequence of operations
    log         \* the operations of the sequence

vars == <<cas_fence, input, src, pc, waiting, toWake, emitted, woken, calls,
          notified, log>>

----------------------------------------------------------------------------
(* Bounds *)

\* Decorator layers stacked on a base strategy.
MaxLayers == 2

\* Trait-method calls made on one notification by the free-order caller.
MaxCalls == 3

\* Largest wake count the engine carries through its next_tag loop.
MaxWake == 3

\* Notify operations in one run of the accumulating engine.
MaxOps == 3

----------------------------------------------------------------------------
(* Integers *)
(*                                                                         *)
(* An unsigned value of w bits is the tuple of its w/16 digits in radix    *)
(* 2^16, least significant first: <<5, 0, 0, 0>> is 5usize and             *)
(* <<65535, 65535, 65535, 65535>> is usize::MAX.  An integer of one of the *)
(* twelve types is [neg, mag]: a sign and a magnitude of 128 bits.         *)

\* Width in bits of usize on the target built (x86_64).
UsizeBits == 64

\* Width in bits of the widest of the twelve types.
WideBits == 128

Radix == 2^16

LimbsFor(bits) == (bits + 15) \div 16

UsizeLimbs == LimbsFor(UsizeBits)

WideLimbs == LimbsFor(WideBits)

\* n, a natural below 2^31, in k digits.
Nat_(n, k) ==
    [i \in 1..k |-> IF i = 1 THEN n % Radix ELSE IF i = 2 THEN n \div Radix ELSE 0]

\* 2^e in k digits.
Pow2(e, k) == [i \in 1..k |-> IF i = (e \div 16) + 1 THEN 2^(e % 16) ELSE 0]

\* 2^bits - 1 in k digits.
Ones(bits, k) ==
    [i \in 1..k |-> IF 16 * i <= bits THEN Radix - 1
                    ELSE IF 16 * (i - 1) < bits THEN 2^(bits - 16 * (i - 1)) - 1
                    ELSE 0]

\* a < b, for a and b of the same number of digits.
Less(a, b) ==
    \E i \in DOMAIN a : a[i] < b[i] /\ \A j \in DOMAIN a : j > i => a[j] = b[j]

\* The value of a is below 2^bits.
Fits(a, bits) == \A i \in DOMAIN a : a[i] <= Ones(bits, Len(a))[i]

\* The borrow out of digit i of a - b.
RECURSIVE Borrow(_, _, _)
Borrow(a, b, i) ==
    IF i = 0 THEN 0
    ELSE IF a[i] - b[i] - Borrow(a, b, i - 1) < 0 THEN 1 ELSE 0

\* usize::overflowing_sub: a - b modulo 2^UsizeBits, and whether it underflowed.
overflowing_sub(a, b) ==
    [v        |-> [i \in DOMAIN a |-> (a[i] - b[i] - Borrow(a, b, i - 1)) % Radix],
     overflow |-> Borrow(a, b, Len(a)) = 1]

\* The carry out of digit i of a + b.
RECURSIVE Carry(_, _, _)
Carry(a, b, i) ==
    IF i = 0 THEN 0
    ELSE IF a[i] + b[i] + Carry(a, b, i - 1) >= Radix THEN 1 ELSE 0

\* usize::overflowing_add: a + b modulo 2^UsizeBits, and whether it overflowed.
overflowing_add(a, b) ==
    [v        |-> [i \in DOMAIN a |-> (a[i] + b[i] + Carry(a, b, i - 1)) % Radix],
     overflow |-> Carry(a, b, Len(a)) = 1]

\* The usize of a natural below 2^31.
U(n) == Nat_(n, UsizeLimbs)

UsizeMax == Ones(UsizeBits, UsizeLimbs)

\* A usize below 2^16, as a natural.
IsSmall(u) == \A i \in DOMAIN u : i > 1 => u[i] = 0

Small(u) == u[1]

\* The low UsizeBits bits of a magnitude, and a usize as a magnitude.
Low(mag) == [i \in 1..UsizeLimbs |-> mag[i]]

Widen(u) == [i \in 1..WideLimbs |-> IF i <= UsizeLimbs THEN u[i] ELSE 0]

IsZero(a) == \A i \in DOMAIN a : a[i] = 0

Pos(mag) == [neg |-> FALSE, mag |-> mag]

Neg(mag) == [neg |-> TRUE, mag |-> mag]

IntTypes == {"usize", "u8", "u16", "u32", "u64", "u128",
             "isize", "i8", "i16", "i32", "i64", "i128"}

Signed(ty) == ty \in {"isize", "i8", "i16", "i32", "i64", "i128"}

Bits(ty) ==
    CASE ty \in {"usize", "isize"} -> UsizeBits
      [] ty \in {"u8", "i8"}       -> 8
      [] ty \in {"u16", "i16"}     -> 16
      [] ty \in {"u32", "i32"}     -> 32
      [] ty \in {"u64", "i64"}     -> 64
      [] ty \in {"u128", "i128"}   -> 128

\* v is a value of type ty: 0 .. 2^bits - 1 when unsigned,
\* -2^(bits-1) .. 2^(bits-1) - 1 when signed.
InType(ty, v) ==
    IF Signed(ty)
    THEN IF v.neg
         THEN ~IsZero(v.mag) /\
              (Fits(v.mag, Bits(ty) - 1) \/ v.mag = Pow2(Bits(ty) - 1, WideLimbs))
         ELSE Fits(v.mag, Bits(ty) - 1)
    ELSE ~v.neg /\ Fits(v.mag, Bits(ty))

\* Wake counts exercised: the scenario values, a digit boundary and both ends
\* of the range.
CountSamples ==
    {U(0), U(1), U(2), U(3), U(5), U(Radix),
     overflowing_sub(UsizeMax, U(1)).v, UsizeMax}

\* Integers exercised: the counts, the ends of the narrow types, the least
\* i64, and values above usize::MAX.
IntSamples ==
    {Pos(Widen(c)) : c \in CountSamples} \cup
    {Pos(Nat_(n, WideLimbs)) : n \in {127, 128, 255}} \cup
    {Neg(Nat_(n, WideLimbs)) : n \in {1, 128}} \cup
    {Neg(Pow2(UsizeBits - 1, WideLimbs)),
     Pos(Pow2(UsizeBits, WideLimbs)),
     Pos(Ones(WideBits - 1, WideLimbs)),
     Pos(Ones(WideBits, WideLimbs))}

Int_(ty, v) == [kind |-> "int", ty |-> ty, v |-> v]

IntInputs ==
    UNION {{Int_(ty, v) : v \in {w \in IntSamples : InType(ty, w)}} : ty \in IntTypes}

----------------------------------------------------------------------------
(* Tags.  A tag is <<type, payload, index>>. *)

Unit == <<"unit", "", 0>>

Str(s) == <<"str", s, 0>>

TagValues == {Unit, Str("done")}

\* Caller-supplied closures F: FnMut() -> T with a captured call counter:
\* "ticket" returns a fresh string each call, "noop" returns ().
Generators == {"ticket", "noop"}

Closure(f) == [f |-> f, calls |-> 0]

GenType(f) == IF f = "noop" THEN "unit" ELSE "str"

\* (self.tag)(): the i-th call of the closure returns its i-th result.
Invoke(g) ==
    LET i == g.calls + 1
    IN  [result |-> IF g.f = "noop" THEN Unit ELSE <<"str", g.f, i>>,
         state  |-> [g EXCEPT !.calls = i]]

----------------------------------------------------------------------------
(* full_fence *)

\* The instructions full_fence emits, by the cfg!() condition it tests.
full_fence(cas) ==
    IF cas
    THEN <<"compiler_fence", "lock cmpxchg", "compiler_fence">>
    ELSE <<"fence(SeqCst)">>

\* An instruction that is a full sequentially consistent barrier.
IsBarrier(i) == i \in {"lock cmpxchg", "fence(SeqCst)"}

----------------------------------------------------------------------------
(* Notify *)

Notify_new(count_) == [kind |-> "Notify", n |-> count_]

\* usize::saturating_sub: the difference, or 0 where it would underflow.
saturating_sub(a, b) ==
    LET d == overflowing_sub(a, b)
    IN  IF d.overflow THEN U(0) ELSE d.v

\* usize::wrapping_sub: the difference modulo 2^UsizeBits.
wrapping_sub(a, b) == overflowing_sub(a, b).v

Notify_fence(self, cas) == full_fence(cas)

Notify_count_wrapping(self, waiting_) == wrapping_sub(self.n, waiting_)

Notify_count_requested(self, waiting_) == self.n

Notify_count(self, waiting_) == saturating_sub(self.n, waiting_)

Notify_next_tag(self) == [tag |-> Unit, self |-> self]

----------------------------------------------------------------------------
(* NotifyAdditional *)

NotifyAdditional_new(count_) == [kind |-> "NotifyAdditional", n |-> count_]

NotifyAdditional_fence(self, cas) == full_fence(cas)

NotifyAdditional_count_topup(self, waiting_) == saturating_sub(self.n, waiting_)

NotifyAdditional_count(self, waiting_) == self.n

NotifyAdditional_next_tag(self) == [tag |-> Unit, self |-> self]

----------------------------------------------------------------------------
(* Trait dispatch: fence, count and next_tag of any Notification.           *)
(* fence yields the instructions emitted; next_tag yields the tag and the   *)
(* value as the &mut self call leaves it.                                   *)

RECURSIVE fence(_, _)
RECURSIVE count(_, _)
RECURSIVE next_tag(_)

----------------------------------------------------------------------------
(* Relaxed *)

Relaxed_new(inner) == [kind |-> "Relaxed", inner |-> inner]

Relaxed_fence_forwarding(self, cas) == fence(self.inner, cas)

Relaxed_fence(self, cas) == <<>>

Relaxed_count_ignoring(self, waiting_) == count(self.inner, U(0))

Relaxed_count(self, waiting_) == count(self.inner, waiting_)

Relaxed_next_tag_fresh(self) == [tag |-> Unit, self |-> self]

Relaxed_next_tag(self) ==
    LET r == next_tag(self.inner)
    IN  [tag |-> r.tag, self |-> [self EXCEPT !.inner = r.self]]

----------------------------------------------------------------------------
(* Tag *)

Tag_new(tag, inner) == [kind |-> "Tag", tag |-> tag, inner |-> inner]

Tag_fence_own(self, cas) == full_fence(cas)

Tag_fence(self, cas) == fence(self.inner, cas)

Tag_count_ignoring(self, waiting_) == count(self.inner, U(0))

Tag_count(self, waiting_) == count(self.inner, waiting_)

Tag_next_tag_inner(self) ==
    LET r == next_tag(self.inner)
    IN  [tag |-> self.tag, self |-> [self EXCEPT !.inner = r.self]]

\* self.tag.clone(): the clone is the same value, the stored tag is kept.
Tag_next_tag(self) == [tag |-> self.tag, self |-> self]

----------------------------------------------------------------------------
(* TagWith *)

TagWith_new(tag, inner) == [kind |-> "TagWith", tag |-> tag, inner |-> inner]

TagWith_fence(self, cas) == fence(self.inner, cas)

TagWith_count(self, waiting_) == count(self.inner, waiting_)

TagWith_next_tag_once(self) ==
    LET r == Invoke(self.tag)
    IN  [tag  |-> IF self.tag.calls = 0 THEN r.result ELSE Invoke(Closure(self.tag.f)).result,
         self |-> IF self.tag.calls = 0 THEN [self EXCEPT !.tag = r.state] ELSE self]

TagWith_next_tag(self) ==
    LET r == Invoke(self.tag)
    IN  [tag |-> r.result, self |-> [self EXCEPT !.tag = r.state]]

----------------------------------------------------------------------------

fence(x, cas) ==
    CASE x.kind = "Notify"           -> Notify_fence(x, cas)
      [] x.kind = "NotifyAdditional" -> NotifyAdditional_fence(x, cas)
      [] x.kind = "Relaxed"          -> Relaxed_fence(x, cas)
      [] x.kind = "Tag"              -> Tag_fence(x, cas)
      [] x.kind = "TagWith"          -> TagWith_fence(x, cas)

count(x, waiting_) ==
    CASE x.kind = "Notify"           -> Notify_count(x, waiting_)
      [] x.kind = "NotifyAdditional" -> NotifyAdditional_count(x, waiting_)
      [] x.kind = "Relaxed"          -> Relaxed_count(x, waiting_)
      [] x.kind = "Tag"              -> Tag_count(x, waiting_)
      [] x.kind = "TagWith"          -> TagWith_count(x, waiting_)

next_tag(x) ==
    CASE x.kind = "Notify"           -> Notify_next_tag(x)
      [] x.kind = "NotifyAdditional" -> NotifyAdditional_next_tag(x)
      [] x.kind = "Relaxed"          -> Relaxed_next_tag(x)
      [] x.kind = "Tag"              -> Tag_next_tag(x)
      [] x.kind = "TagWith"          -> TagWith_next_tag(x)

\* The associated type Tag of a value's notification: "unit" is ().
RECURSIVE TagType(_)
TagType(x) ==
    CASE x.kind \in {"int", "Notify", "NotifyAdditional"} -> "unit"
      [] x.kind = "Relaxed" -> TagType(x.inner)
      [] x.kind = "Tag"     -> x.tag[1]
      [] x.kind = "TagWith" -> GenType(x.tag.f)

----------------------------------------------------------------------------
(* IntoNotification *)

Panic(msg) == [kind |-> "panic", msg |-> msg]

IsPanic(x) == x.kind = "panic"

\* TryInto<usize>: the value where usize holds it, an error otherwise.
\* The cast "as usize": the low bits of the two's complement.
try_into_wrapping(x) ==
    [ok |-> TRUE,
     v  |-> IF x.v.neg THEN wrapping_sub(U(0), Low(x.v.mag)) ELSE Low(x.v.mag)]

try_into(x) ==
    IF x.v.neg \/ ~Fits(x.v.mag, UsizeBits)
    THEN [ok |-> FALSE, v |-> U(0)]
    ELSE [ok |-> TRUE, v |-> Low(x.v.mag)]

\* into_notification: the numeric impls convert or panic, a Notification
\* is returned as it is.
into_notification(x) ==
    IF x.kind = "int"
    THEN LET r == try_into(x)
         IN  IF r.ok THEN Notify_new(r.v) ELSE Panic("overflow")
    ELSE x

\* x.additional(), for Self: IntoNotification<Notify = Notify>.
additional_less(x) ==
    LET nf == into_notification(x)
    IN  IF IsPanic(nf) THEN nf ELSE NotifyAdditional_new(count(nf, U(1)))

additional(x) ==
    LET nf == into_notification(x)
    IN  IF IsPanic(nf) THEN nf ELSE NotifyAdditional_new(count(nf, U(0)))

relaxed(x) ==
    LET nf == into_notification(x)
    IN  IF IsPanic(nf) THEN nf ELSE Relaxed_new(nf)

\* x.tag(t), for Self: IntoNotification<Tag = ()>.
tag(x, t) ==
    LET nf == into_notification(x)
    IN  IF IsPanic(nf) THEN nf ELSE Tag_new(t, nf)

\* x.tag_with(g), for Self: IntoNotification<Tag = ()>.
tag_with(x, g) ==
    LET nf == into_notification(x)
    IN  IF IsPanic(nf) THEN nf ELSE TagWith_new(g, nf)

\* Decorator layers of a value.
RECURSIVE Layers(_)
Layers(x) ==
    IF x.kind \in {"Relaxed", "Tag", "TagWith"} THEN 1 + Layers(x.inner) ELSE 0

----------------------------------------------------------------------------
(* State *)

NoCalls == [fence |-> 0, count |-> 0, next_tag |-> 0]

TotalCalls == calls.fence + calls.count + calls.next_tag

InitFrom(inputs) ==
    /\ cas_fence \in BOOLEAN
    /\ input \in inputs
    /\ src = input
    /\ pc = "build"
    /\ waiting = U(0)
    /\ toWake = U(0)
    /\ emitted = <<>>
    /\ woken = <<>>
    /\ calls = NoCalls
    /\ notified = U(0)
    /\ log = <<>>

\* The value a builder method or a conversion returned; a panic ends the run.
Built(r) ==
    /\ src' = r
    /\ pc' = IF IsPanic(r) THEN "panicked" ELSE pc
    /\ UNCHANGED <<cas_fence, input, waiting, toWake, emitted, woken, calls,
                   notified, log>>

----------------------------------------------------------------------------
(* The builder methods of IntoNotification, applied to the value in hand. *)

BuildAdditional ==
    /\ pc = "build"
    /\ src.kind \in {"int", "Notify"}
    /\ Built(additional(src))

BuildRelaxed ==
    /\ pc = "build"
    /\ Layers(src) < MaxLayers
    /\ Built(relaxed(src))

BuildTag ==
    /\ pc = "build"
    /\ Layers(src) < MaxLayers
    /\ TagType(src) = "unit"
    /\ \E t \in TagValues : Built(tag(src, t))

BuildTagWith ==
    /\ pc = "build"
    /\ Layers(src) < MaxLayers
    /\ TagType(src) = "unit"
    /\ \E f \in Generators : Built(tag_with(src, Closure(f)))

\* The value is handed over: into_notification turns it into the Notification.
Convert ==
    /\ pc = "build"
    /\ LET r == into_notification(src)
       IN  /\ src' = r
           /\ pc' = IF IsPanic(r) THEN "panicked" ELSE "ready"
    /\ UNCHANGED <<cas_fence, input, waiting, toWake, emitted, woken, calls,
                   notified, log>>

Build == BuildAdditional \/ BuildRelaxed \/ BuildTag \/ BuildTagWith \/ Convert

----------------------------------------------------------------------------
(* The trait methods, called in any order on the Notification. *)

CallFence ==
    /\ pc = "ready"
    /\ TotalCalls < MaxCalls
    /\ emitted' = emitted \o fence(src, cas_fence)
    /\ calls' = [calls EXCEPT !.fence = @ + 1]
    /\ UNCHANGED <<cas_fence, input, src, pc, waiting, toWake, woken,
                   notified, log>>

CallCount ==
    /\ pc = "ready"
    /\ TotalCalls < MaxCalls
    /\ \E w \in CountSamples :
          /\ waiting' = w
          /\ toWake' = count(src, w)
    /\ calls' = [calls EXCEPT !.count = @ + 1]
    /\ UNCHANGED <<cas_fence, input, src, pc, emitted, woken, notified, log>>

CallNextTag ==
    /\ pc = "ready"
    /\ TotalCalls < MaxCalls
    /\ LET r == next_tag(src)
       IN  /\ woken' = Append(woken, r.tag)
           /\ src' = r.self
    /\ calls' = [calls EXCEPT !.next_tag = @ + 1]
    /\ UNCHANGED <<cas_fence, input, pc, waiting, toWake, emitted,
                   notified, log>>

----------------------------------------------------------------------------
(* The wait-queue engine: fence once, count once, next_tag count times. *)

EngineFence ==
    /\ pc = "ready"
    /\ emitted' = emitted \o fence(src, cas_fence)
    /\ calls' = [calls EXCEPT !.fence = @ + 1]
    /\ pc' = "fenced"
    /\ UNCHANGED <<cas_fence, input, src, waiting, toWake, woken,
                   notified, log>>

EngineCount ==
    /\ pc = "fenced"
    /\ \E w \in CountSamples :
          /\ IsSmall(count(src, w)) /\ Small(count(src, w)) <= MaxWake
          /\ waiting' = w
          /\ toWake' = count(src, w)
          /\ pc' = IF count(src, w) = U(0) THEN "done" ELSE "waking"
    /\ calls' = [calls EXCEPT !.count = @ + 1]
    /\ UNCHANGED <<cas_fence, input, src, emitted, woken, notified, log>>

EngineNextTag ==
    /\ pc = "waking"
    /\ Len(woken) < Small(toWake)
    /\ LET r == next_tag(src)
       IN  /\ woken' = Append(woken, r.tag)
           /\ src' = r.self
    /\ calls' = [calls EXCEPT !.next_tag = @ + 1]
    /\ pc' = IF Len(woken) + 1 = Small(toWake) THEN "done" ELSE "waking"
    /\ UNCHANGED <<cas_fence, input, waiting, toWake, emitted, notified, log>>

----------------------------------------------------------------------------
(* The engine over a sequence of notify operations: what count returns is   *)
(* added to the number passed as waiting to the next operation.             *)

SeqCounts == {U(0), U(1), U(2), U(3), UsizeMax}

Operate(op, nf, n) ==
    LET c == count(nf, notified)
        total == overflowing_add(notified, c)
    IN  /\ ~total.overflow
        /\ src' = nf
        /\ waiting' = notified
        /\ toWake' = c
        /\ notified' = total.v
        /\ log' = Append(log, [op |-> op, n |-> n, before |-> notified,
                               count |-> c, after |-> total.v])
        /\ calls' = [calls EXCEPT !.count = @ + 1]
        /\ UNCHANGED <<cas_fence, input, pc, emitted, woken>>

OpNotify ==
    /\ pc = "seq"
    /\ Len(log) < MaxOps
    /\ \E n \in SeqCounts :
          Operate("Notify", into_notification(Int_("usize", Pos(Widen(n)))), n)

OpNotifyAdditional ==
    /\ pc = "seq"
    /\ Len(log) < MaxOps
    /\ \E n \in SeqCounts :
          Operate("NotifyAdditional", additional(Int_("usize", Pos(Widen(n)))), n)

----------------------------------------------------------------------------
(* Specifications *)

\* The engine's protocol on a value built from an integer of any type.
Init == InitFrom(IntInputs)

Next == Build \/ EngineFence \/ EngineCount \/ EngineNextTag

Spec == Init /\ [][Next]_vars

\* The trait methods in any order on a value built from a usize.
CallTypes == {"usize", "u8", "i64"}

InitCalls ==
    InitFrom({x \in IntInputs :
                 /\ x.ty \in CallTypes
                 /\ x.v \in {Pos(Widen(c)) : c \in CountSamples}})

NextCalls == Build \/ CallFence \/ CallCount \/ CallNextTag

SpecCalls == InitCalls /\ [][NextCalls]_vars

\* A sequence of notify operations on one event.
InitSeq ==
    /\ cas_fence \in BOOLEAN
    /\ input = Int_("usize", Pos(Widen(U(0))))
    /\ src = input
    /\ pc = "seq"
    /\ waiting = U(0)
    /\ toWake = U(0)
    /\ emitted = <<>>
    /\ woken = <<>>
    /\ calls = NoCalls
    /\ notified = U(0)
    /\ log = <<>>

NextSeq == OpNotify \/ OpNotifyAdditional

SpecSeq == InitSeq /\ [][NextSeq]_vars

----------------------------------------------------------------------------
TypeOK ==
    /\ pc \in {"build", "ready", "fenced", "waking", "done", "panicked", "seq"}
    /\ Len(toWake) = UsizeLimbs /\ \A i \in DOMAIN toWake : toWake[i] \in 0..(Radix - 1)
    /\ Len(waiting) = UsizeLimbs /\ Len(notified) = UsizeLimbs
    /\ calls.count = 0 => (waiting = U(0) /\ toWake = U(0))


----------------------------------------------------------------------------
(* Vocabulary of the properties *)

\* The larger of two usize values.
Max(a, b) == IF Less(a, b) THEN b ELSE a

\* a = b + c in usize, without overflow.
IsSum(a, b, c) == ~overflowing_add(b, c).overflow /\ overflowing_add(b, c).v = a

\* Full barriers among the instructions emitted.
Barriers(instrs) == Cardinality({i \in DOMAIN instrs : IsBarrier(instrs[i])})

\* The base strategy under all decorator layers.
RECURSIVE Base(_)
Base(x) == IF x.kind \in {"Relaxed", "Tag", "TagWith"} THEN Base(x.inner) ELSE x

\* The value under the outer Relaxed layers.
RECURSIVE Unwrap(_)
Unwrap(x) == IF x.kind = "Relaxed" THEN Unwrap(x.inner) ELSE x

\* Some layer of the value is a Relaxed.
RECURSIVE HasRelaxed(_)
HasRelaxed(x) ==
    CASE x.kind = "Relaxed"            -> TRUE
      [] x.kind \in {"Tag", "TagWith"} -> HasRelaxed(x.inner)
      [] OTHER                         -> FALSE

\* Invocations so far of all the closures held in the value.
RECURSIVE GenCalls(_)
GenCalls(x) ==
    CASE x.kind = "TagWith"            -> x.tag.calls + GenCalls(x.inner)
      [] x.kind \in {"Relaxed", "Tag"} -> GenCalls(x.inner)
      [] OTHER                         -> 0

\* The result of the i-th invocation of closure f.
NthResult(f, i) == Invoke([f |-> f, calls |-> i - 1]).result

\* usize holds the integer: it is not negative and not above usize::MAX.
Representable(v) ==
    /\ ~v.neg
    /\ v.mag = Widen(UsizeMax) \/ Less(v.mag, Widen(UsizeMax))

Counted == pc \in {"ready", "waking", "done"} /\ calls.count > 0

----------------------------------------------------------------------------
(* C1 *)

\* C1: Notify(requested).count(waiting) is requested - waiting when
\* waiting < requested and 0 otherwise; it stays within 0..requested, so it
\* neither underflows nor wraps.
C1_NotifyCountSaturates ==
    (Counted /\ src.kind = "Notify") =>
        /\ Less(waiting, src.n) => IsSum(src.n, toWake, waiting)
        /\ ~Less(waiting, src.n) => toWake = U(0)
        /\ ~Less(src.n, toWake)

C1_Witness ==
    /\ Counted /\ src.kind = "Notify"
    /\ src.n = U(3) /\ waiting = U(5) /\ toWake = U(0)

(* C2 *)

\* C2: n.additional() is a NotifyAdditional whose requested count is n, and
\* its count(waiting) is n whatever waiting is.
C2_AdditionalIgnoresWaiting ==
    (src.kind = "NotifyAdditional") =>
        /\ Pos(Widen(src.n)) = input.v
        /\ Counted => Pos(Widen(toWake)) = input.v

C2_Witness ==
    /\ Counted /\ src.kind = "NotifyAdditional"
    /\ input.v = Pos(Widen(U(3))) /\ waiting = U(5) /\ toWake = U(3)

(* C3 *)

\* C3: with the engine adding each count to the number it passes next, a
\* Notify(n) operation leaves the number at max(previous, n) and every later
\* Notify(n) returns 0; a NotifyAdditional(n) operation returns n and raises
\* the number by n, every time.
C3_TopUpVersusAdditional ==
    \A i \in DOMAIN log :
        /\ log[i].op = "Notify" =>
              /\ log[i].after = Max(log[i].before, log[i].n)
              /\ \A j \in DOMAIN log :
                    (j > i /\ log[j].op = "Notify" /\ log[j].n = log[i].n)
                        => log[j].count = U(0)
        /\ log[i].op = "NotifyAdditional" =>
              /\ log[i].count = log[i].n
              /\ IsSum(log[i].after, log[i].before, log[i].n)

C3_Witness ==
    /\ Len(log) = 3
    /\ log[1].op = "Notify" /\ log[1].n = U(3) /\ log[1].count = U(3)
    /\ log[2].op = "NotifyAdditional" /\ log[2].n = U(2) /\ log[2].after = U(5)
    /\ log[3].op = "Notify" /\ log[3].n = U(3) /\ log[3].count = U(0)

(* C4 *)

C4_State ==
    /\ src.kind # "int" => (pc = "panicked" <=> ~Representable(input.v))
    /\ pc = "panicked" =>
          /\ src = Panic("overflow")
          /\ calls = NoCalls /\ emitted = <<>> /\ toWake = U(0) /\ woken = <<>>
    /\ (src.kind # "int" /\ pc # "panicked") =>
          /\ Base(src).kind \in {"Notify", "NotifyAdditional"}
          /\ Pos(Widen(Base(src).n)) = input.v
    /\ (pc = "ready" /\ Layers(src) = 0 /\ src.kind = "Notify") =>
          src = Notify_new(Low(input.v.mag))

\* C4: converting an integer of any of the twelve types panics with
\* "overflow" exactly when usize cannot hold the value; after the panic no
\* Notification exists and no fence, count or next_tag step is ever taken;
\* otherwise the Notify carries exactly the value.
C4_OverflowAborts ==
    [](C4_State) /\ [][pc = "panicked" => pc' = "panicked"]_vars

C4_Witness ==
    /\ pc = "panicked"
    /\ input = Int_("u128", Pos(Pow2(UsizeBits, WideLimbs)))

(* C5 *)

\* C5: under the protocol with strategy n.tag(v), the barrier is emitted
\* once and before any listener is woken, max(0, n - waiting) listeners are
\* woken, and each receives v; 5.tag("done") with waiting = 2 wakes three
\* listeners with "done".
C5_TagProtocol ==
    (src.kind = "Tag" /\ src.inner.kind = "Notify") =>
        /\ pc \in {"build", "ready"} => (emitted = <<>> /\ woken = <<>>)
        /\ pc \in {"fenced", "waking", "done"} => Barriers(emitted) = 1
        /\ pc \in {"waking", "done"} =>
              /\ Less(waiting, src.inner.n) => IsSum(Low(input.v.mag), toWake, waiting)
              /\ ~Less(waiting, src.inner.n) => toWake = U(0)
        /\ pc = "waking" => Len(woken) < Small(toWake)
        /\ pc = "done" => (IsSmall(toWake) /\ Len(woken) = Small(toWake))
        /\ \A i \in DOMAIN woken : woken[i] = src.tag
        /\ (pc = "done" /\ input.v = Pos(Widen(U(5))) /\ waiting = U(2)
               /\ src.tag = Str("done"))
              => woken = <<Str("done"), Str("done"), Str("done")>>

C5_Witness ==
    /\ pc = "done"
    /\ src = Tag_new(Str("done"), Notify_new(U(5)))
    /\ waiting = U(2) /\ toWake = U(3)
    /\ Barriers(emitted) = 1
    /\ woken = <<Str("done"), Str("done"), Str("done")>>

(* C6 *)

\* C6: for a TagWith, bare or under Relaxed layers, k calls of next_tag have
\* invoked the generator k times and returned its results in call order;
\* calls of fence and count have not invoked it.
C6_TagWithInvokesOncePerCall ==
    (pc = "ready" /\ Unwrap(src).kind = "TagWith") =>
        /\ Unwrap(src).tag.calls = calls.next_tag
        /\ Len(woken) = calls.next_tag
        /\ \A i \in DOMAIN woken : woken[i] = NthResult(Unwrap(src).tag.f, i)

C6_Witness ==
    /\ pc = "ready"
    /\ src.kind = "Relaxed" /\ src.inner.kind = "TagWith"
    /\ src.inner.tag.f = "ticket"
    /\ calls.next_tag = 2 /\ calls.fence + calls.count = 1
    /\ woken = <<NthResult("ticket", 1), NthResult("ticket", 2)>>

(* C7 *)

\* C7 as stated: Relaxed(inner).fence() emits no barrier while inner.fence()
\* emits one, for any inner.
C7_Original ==
    (pc = "ready" /\ src.kind = "Relaxed") =>
        /\ Barriers(emitted) = 0
        /\ Barriers(fence(src.inner, cas_fence)) = 1

\* C7: Relaxed(inner).fence() emits nothing for any inner, while
\* inner.fence() emits the barrier exactly when inner holds no Relaxed layer.
C7_RelaxedSuppressesFence ==
    (pc = "ready" /\ src.kind = "Relaxed") =>
        /\ emitted = <<>>
        /\ fence(src, cas_fence) = <<>>
        /\ Barriers(fence(src.inner, cas_fence))
              = (IF HasRelaxed(src.inner) THEN 0 ELSE 1)

C7_Witness ==
    /\ pc = "ready"
    /\ src.kind = "Relaxed" /\ ~HasRelaxed(src.inner)
    /\ calls.fence = 2
    /\ emitted = <<>>

(* C8 *)

\* C8: a stack of Relaxed, Tag and TagWith layers over a base strategy
\* returns the base strategy's count(waiting);
\* 5.additional().relaxed().count(2) is 5.
C8_DecoratorsForwardCount ==
    Counted =>
        /\ toWake = count(Base(src), waiting)
        /\ (src = Relaxed_new(NotifyAdditional_new(U(5))) /\ waiting = U(2))
              => toWake = U(5)

C8_Witness ==
    /\ Counted
    /\ Layers(src) = MaxLayers
    /\ src.kind = "Relaxed" /\ src.inner.kind = "TagWith"
    /\ Base(src) = Notify_new(U(5)) /\ waiting = U(2) /\ toWake = U(3)

(* C9 *)

\* C9: the outermost Tag or TagWith selects the tag: every next_tag returns
\* the outermost Tag's value or the outermost TagWith's next result, whether
\* or not Relaxed layers lie outside it, and no closure below it is invoked.
C9_OutermostTagWins ==
    (pc = "ready" /\ Unwrap(src).kind \in {"Tag", "TagWith"}) =>
        /\ Len(woken) = calls.next_tag
        /\ GenCalls(Unwrap(src).inner) = 0
        /\ Unwrap(src).kind = "Tag" =>
              \A i \in DOMAIN woken : woken[i] = Unwrap(src).tag
        /\ Unwrap(src).kind = "TagWith" =>
              \A i \in DOMAIN woken : woken[i] = NthResult(Unwrap(src).tag.f, i)

C9_Witness ==
    /\ pc = "ready"
    /\ src.kind = "Tag" /\ src.tag = Str("done")
    /\ src.inner.kind = "TagWith"
    /\ calls.next_tag = 3
    /\ woken = <<Str("done"), Str("done"), Str("done")>>
    /\ src.inner.tag.calls = 0

(* C10 *)

\* C10: Tag and TagWith fence as their inner does, so the fence calls of a
\* composition emit one barrier each when it holds no Relaxed layer and none
\* when it holds one at any depth.
C10_FenceIffNoRelaxed ==
    pc = "ready" =>
        /\ Barriers(emitted) = (IF HasRelaxed(src) THEN 0 ELSE calls.fence)
        /\ src.kind \in {"Tag", "TagWith"} =>
              fence(src, cas_fence) = fence(src.inner, cas_fence)

C10_Witness ==
    /\ pc = "ready"
    /\ src.kind = "Tag" /\ src.inner.kind = "Relaxed"
    /\ calls.fence = 2
    /\ emitted = <<>>

====
